---- MODULE Spec2Model ----
(***************************************************************************)
(* Streak statistics of gh-streaks: GitHubService.getCommitHistory of      *)
(* src/services/github.service.ts, from the capture of `today` through     *)
(* collectContributions to calculateStreaks.                               *)
(*                                                                         *)
(* Representation.  A date key 'yyyy-MM-dd' is the number of its calendar  *)
(* day (day 0 is the first day of the window): the keys are fixed-width    *)
(* and zero-padded, so the string order used by the code (localeCompare,   *)
(* <=, ===) is the order of the day numbers.  An instant (Date.getTime())  *)
(* is a whole number of minutes since 00:00 UTC of day 0; tzOffset is      *)
(* Date.getTimezoneOffset(), minutes, UTC minus local time.  A             *)
(* ContributionMap is a function from a finite set of date keys to counts. *)
(***************************************************************************)
EXTENDS Integers, Sequences, FiniteSets

VARIABLES upstream, tzOffset, clock, today, contributions, stats, pc,
          token, tokenValid, user, yearsToFetch, fetched, failure,
          route, httpStatus, httpBody,
          currentYear, yearToFetch, hasMoreHistory, yearContributions,
          badgeStreak, tier, nextTierText, badges, requests, heap,
          outstanding

\* the request: credential, user info, fetch log, outcome and HTTP answer
rvars == <<token, tokenValid, user, yearsToFetch, fetched, failure,
           route, httpStatus, httpBody>>

\* the locals of the year-by-year loop
lvars == <<currentYear, yearToFetch, hasMoreHistory, yearContributions>>

\* the badge being rendered, the test sheet, the requests in flight, the
\* contribution map objects they allocated, and the yearly fetches that were
\* issued and not yet answered
xvars == <<badgeStreak, tier, nextTierText, badges, requests, heap,
           outstanding>>

vars == <<upstream, tzOffset, clock, today, contributions, stats, pc,
          rvars, lvars, xvars>>

(* ------------------------------- bounds -------------------------------- *)

\* date keys the upstream calendar may report are 0..MaxDate
MaxDate == 5

\* largest contributionCount the upstream reports
MaxCount == 2

\* how many times the clock advances while the fetches are awaited
MaxTicks == 1

\* minutes the clock advances per tick
TickMinutes == 120

Dates == 0..MaxDate

Counts == 0..MaxCount

\* host zones: UTC+2, UTC, UTC-5 (getTimezoneOffset is UTC minus local)
TzOffsets == {0 - 120, 0, 300}

\* instants at which a request starts: 07:00 and 21:00 UTC of day 4
StartInstants == {4 * 1440 + 420, 4 * 1440 + 1260}

\* calendar days per year
YearLen == 2

\* largest contributionCount a yearly response of the loop reports
LoopMaxCount == 1

\* the calendar year in which the requests of the loop start
LoopStartYear == 6

\* all contribution maps over a set of dates
\* how many years before the current one an account may go back
MaxAccountAge == 1

\* the largest current streak a rendered badge is given
MaxStreak == 1001

\* how many years before the start year the complete history goes back
HistoryYears == 3

MapsOver(S) == UNION {[K -> Counts] : K \in SUBSET S}

(* ------------------------------ constants ------------------------------ *)

\* 24 * 60 minutes: the code's 24 * 60 * 60 * 1000 ms, in minutes
MinutesPerDay == 1440

\* lastCommitDate: string | null
Null == 0 - 1

(* ------------------------- date-fns and Date --------------------------- *)

\* format(date, 'yyyy-MM-dd'): the calendar date of an instant in the host zone
format(t, tz) == (t - tz) \div MinutesPerDay

\* parseISO('yyyy-MM-dd'): local midnight of that calendar date
parseISO(d, tz) == d * MinutesPerDay + tz

\* isFuture(date): date is after Date.now()
isFuture(t, now) == t > now

\* getLocalDateString: format(new Date(date.getTime() - tzOffset * 60000))
getLocalDateString(t, tz) == format(t - tz, tz)

\* the calendar year of a date key, and the key `${year}-01-01`
YearOf(d) == d \div YearLen

Jan1(y) == y * YearLen

DaysOfYear(y) == Jan1(y)..(Jan1(y) + YearLen - 1)

\* Date.getFullYear(): the year of the instant's calendar date in the host zone
getFullYear(t, tz) == YearOf(format(t, tz))

(* ------------------------------- helpers ------------------------------- *)

Max(S) == CHOOSE x \in S : \A y \in S : y <= x

Min(S) == CHOOSE x \in S : \A y \in S : x <= y

\* Object.entries(contributions).sort(([a], [b]) => a.localeCompare(b))
RECURSIVE SortedEntries(_)
SortedEntries(m) ==
    IF DOMAIN m = {} THEN <<>>
    ELSE LET d == Min(DOMAIN m)
             rest == [k \in (DOMAIN m) \ {d} |-> m[k]]
         IN <<(<<d, m[d]>>)>> \o SortedEntries(rest)

(* --------------------------- collectContributions ---------------------- *)

\* KeepDay without the comparison against today's key
KeepDay_OnlyIsFuture(d, todayStr, now, tz) ==
    ~isFuture(parseISO(d, tz), now)

\* the condition under which a reported day is stored in the map
KeepDay(d, todayStr, now, tz) ==
    /\ ~isFuture(parseISO(d, tz), now)
    /\ format(parseISO(d, tz), tz) <= todayStr

\* collectContributions storing every reported day
collectContributions_Unfiltered(days, t, now, tz) ==
    [d \in DOMAIN days |-> days[d]]

\* the map built from the reported days
collectContributions(days, t, now, tz) ==
    LET todayStr == getLocalDateString(t, tz)
        kept == {d \in DOMAIN days : KeepDay(d, todayStr, now, tz)}
    IN [d \in kept |-> days[d]]

(* ------------------------------ the engine ----------------------------- *)

\* findLastCommitDate accepting a count of 0
findLastCommitDate_NonNegative(dates) ==
    LET hits == {i \in 1..Len(dates) : dates[i][2] >= 0}
    IN IF hits = {} THEN Null ELSE dates[Max(hits)][1]

\* findLastCommitDate with find in place of findLast
findLastCommitDate_First(dates) ==
    LET hits == {i \in 1..Len(dates) : dates[i][2] > 0}
    IN IF hits = {} THEN Null ELSE dates[Min(hits)][1]

\* findLastCommitDate returning the date of the last entry
findLastCommitDate_LastEntry(dates) ==
    IF Len(dates) = 0 THEN Null ELSE dates[Len(dates)][1]

\* dates.findLast(([, count]) => count > 0)?.[0] ?? null
findLastCommitDate(dates) ==
    LET hits == {i \in 1..Len(dates) : dates[i][2] > 0}
    IN IF hits = {} THEN Null ELSE dates[Max(hits)][1]

\* the loop breaking at an empty today instead of skipping it
RECURSIVE CountBack_StopsAtToday(_, _, _, _)
CountBack_StopsAtToday(dates, i, todayStr, streak) ==
    IF i = 0 THEN streak
    ELSE IF dates[i][2] = 0 THEN streak
    ELSE CountBack_StopsAtToday(dates, i - 1, todayStr, streak + 1)

\* the for loop over dates.toReversed(), from index i down, streak so far
RECURSIVE CountBack(_, _, _, _)
CountBack(dates, i, todayStr, streak) ==
    IF i = 0 THEN streak
    ELSE IF dates[i][1] = todayStr /\ dates[i][2] = 0
         THEN CountBack(dates, i - 1, todayStr, streak)
    ELSE IF dates[i][2] = 0 THEN streak
    ELSE CountBack(dates, i - 1, todayStr, streak + 1)

calculateCurrentStreak(dates, todayStr, yesterdayStr) ==
    LET n == Len(dates)
        lastIsEmptyToday == n > 0 /\ dates[n][1] = todayStr /\ dates[n][2] = 0
        hasYesterdayContributions ==
            \E i \in 1..n : dates[i][1] = yesterdayStr /\ dates[i][2] > 0
    IN IF lastIsEmptyToday /\ ~hasYesterdayContributions THEN 0
       ELSE CountBack(dates, n, todayStr, 0)

\* the reduce with count >= 0 in place of count > 0
RECURSIVE LongestFold_NonNegative(_, _, _, _)
LongestFold_NonNegative(dates, i, cur, mx) ==
    IF i > Len(dates) THEN mx
    ELSE LET newStreak == IF dates[i][2] >= 0 THEN cur + 1 ELSE 0
         IN LongestFold_NonNegative(dates, i + 1, newStreak,
                                    IF newStreak > mx THEN newStreak ELSE mx)

\* the reduce over dates: entries from index i on, accumulator {cur, max}
RECURSIVE LongestFold(_, _, _, _)
LongestFold(dates, i, cur, mx) ==
    IF i > Len(dates) THEN mx
    ELSE LET newStreak == IF dates[i][2] > 0 THEN cur + 1 ELSE 0
         IN LongestFold(dates, i + 1, newStreak,
                        IF newStreak > mx THEN newStreak ELSE mx)

calculateLongestStreak(dates) == LongestFold(dates, 1, 0, 0)

\* calculateTotalCommits counting the active days instead of summing counts
calculateTotalCommits_ActiveDays(m) ==
    Cardinality({d \in DOMAIN m : m[d] > 0})

\* calculateTotalCommits counting the entries
calculateTotalCommits_Entries(m) == Cardinality(DOMAIN m)

\* Object.values(contributions).reduce((sum, count) => sum + count, 0)
RECURSIVE calculateTotalCommits(_)
calculateTotalCommits(m) ==
    IF DOMAIN m = {} THEN 0
    ELSE LET d == CHOOSE k \in DOMAIN m : TRUE
         IN m[d] + calculateTotalCommits([k \in (DOMAIN m) \ {d} |-> m[k]])

calculateStreaks(m, t, tz) ==
    LET dates == SortedEntries(m)
        todayStr == getLocalDateString(t, tz)
        yesterdayStr == getLocalDateString(t - MinutesPerDay, tz)
    IN [currentStreak |-> calculateCurrentStreak(dates, todayStr, yesterdayStr),
        longestStreak |-> calculateLongestStreak(dates),
        totalCommits |-> calculateTotalCommits(m),
        lastCommitDate |-> findLastCommitDate(dates)]

(* ---------------------------- the state machine ------------------------ *)

EmptyMap == [d \in {} |-> 0]

\* no user info fetched yet
NoUser == [createdYear |-> 0, contributionYears |-> {}]

\* the request and loop variables before any request step
RequestIdle ==
    /\ token = TRUE
    /\ tokenValid = "unknown"
    /\ user = NoUser
    /\ yearsToFetch = <<>>
    /\ fetched = <<>>
    /\ failure = "none"
    /\ route = "json"
    /\ httpStatus = 0
    /\ httpBody = "none"

LoopIdle ==
    /\ currentYear = 0
    /\ yearToFetch = 0
    /\ hasMoreHistory = TRUE
    /\ yearContributions = EmptyMap

\* no badge rendered and no concurrent request in flight
OthersIdle ==
    /\ badgeStreak = 0
    /\ tier = "none"
    /\ nextTierText = "none"
    /\ badges = <<>>
    /\ requests = <<>>
    /\ heap = <<>>
    /\ outstanding = {}

NoStats ==
    [currentStreak |-> 0, longestStreak |-> 0, totalCommits |-> 0,
     lastCommitDate |-> Null]

Init ==
    /\ upstream \in MapsOver(Dates)
    /\ tzOffset \in TzOffsets
    /\ clock \in StartInstants
    /\ today = clock
    /\ contributions = EmptyMap
    /\ stats = NoStats
    /\ pc = "start"
    /\ RequestIdle
    /\ LoopIdle
    /\ OthersIdle

\* getCommitHistory up to `const today = new Date()`
GetCommitHistoryBegin ==
    /\ pc = "start"
    /\ today' = clock
    /\ pc' = "fetching"
    /\ UNCHANGED <<upstream, tzOffset, clock, contributions, stats>>
    /\ UNCHANGED <<rvars, lvars>>
    /\ UNCHANGED xvars

\* time passes while a yearly fetch is awaited
Tick ==
    /\ pc = "fetching"
    /\ clock < today + MaxTicks * TickMinutes
    /\ clock' = clock + TickMinutes
    /\ UNCHANGED <<upstream, tzOffset, today, contributions, stats, pc>>
    /\ UNCHANGED <<rvars, lvars>>
    /\ UNCHANGED xvars

\* the fetched calendars are filtered into the map
CollectContributions ==
    /\ pc = "fetching"
    /\ contributions' = collectContributions(upstream, today, clock, tzOffset)
    /\ pc' = "collected"
    /\ UNCHANGED <<upstream, tzOffset, clock, today, stats>>
    /\ UNCHANGED <<rvars, lvars>>
    /\ UNCHANGED xvars

\* return this.calculateStreaks(contributions, today)
GetCommitHistoryReturn ==
    /\ pc = "collected"
    /\ stats' = calculateStreaks(contributions, today, tzOffset)
    /\ pc' = "done"
    /\ UNCHANGED <<upstream, tzOffset, clock, today, contributions>>
    /\ UNCHANGED <<rvars, lvars>>
    /\ UNCHANGED xvars

Next ==
    \/ GetCommitHistoryBegin
    \/ Tick
    \/ CollectContributions
    \/ GetCommitHistoryReturn

Spec == Init /\ [][Next]_vars

(* ------------- the year-by-year revision (future-filtering engine) ----- *)

\* dates.filter(([date]) => date <= todayStr).findLast(count > 0)
P4_findLastCommitDate(dates, todayStr) ==
    LET hits == {i \in 1..Len(dates) :
                     dates[i][1] <= todayStr /\ dates[i][2] > 0}
    IN IF hits = {} THEN Null ELSE dates[Max(hits)][1]

\* the loop over dates.toReversed() that also skips future dates
RECURSIVE P4_CountBack(_, _, _, _)
P4_CountBack(dates, i, todayStr, streak) ==
    IF i = 0 THEN streak
    ELSE IF dates[i][1] > todayStr
         THEN P4_CountBack(dates, i - 1, todayStr, streak)
    ELSE IF dates[i][1] = todayStr /\ dates[i][2] = 0
         THEN P4_CountBack(dates, i - 1, todayStr, streak)
    ELSE IF dates[i][2] = 0 THEN streak
    ELSE P4_CountBack(dates, i - 1, todayStr, streak + 1)

P4_calculateCurrentStreak(dates, todayStr, yesterdayStr) ==
    LET n == Len(dates)
        lastIsEmptyToday == n > 0 /\ dates[n][1] = todayStr /\ dates[n][2] = 0
        hasYesterdayContributions ==
            \E i \in 1..n : dates[i][1] = yesterdayStr /\ dates[i][2] > 0
    IN IF lastIsEmptyToday /\ ~hasYesterdayContributions THEN 0
       ELSE P4_CountBack(dates, n, todayStr, 0)

\* the for loop of calculateLongestStreak, from index i on
RECURSIVE P4_LongestLoop(_, _, _, _, _)
P4_LongestLoop(dates, i, todayStr, cur, mx) ==
    IF i > Len(dates) THEN mx
    ELSE IF dates[i][1] > todayStr
         THEN P4_LongestLoop(dates, i + 1, todayStr, cur, mx)
    ELSE IF dates[i][2] > 0
         THEN P4_LongestLoop(dates, i + 1, todayStr, cur + 1,
                             IF cur + 1 > mx THEN cur + 1 ELSE mx)
    ELSE P4_LongestLoop(dates, i + 1, todayStr, 0, mx)

P4_calculateLongestStreak(dates, todayStr) ==
    P4_LongestLoop(dates, 1, todayStr, 0, 0)

\* Object.entries(contributions).filter(date <= todayStr).reduce(sum)
P4_calculateTotalCommits(m, todayStr) ==
    calculateTotalCommits([d \in {k \in DOMAIN m : k <= todayStr} |-> m[d]])

P4_calculateStreaks(m, t, tz) ==
    LET dates == SortedEntries(m)
        todayStr == getLocalDateString(t, tz)
        yesterdayStr == getLocalDateString(t - MinutesPerDay, tz)
    IN [currentStreak |->
            P4_calculateCurrentStreak(dates, todayStr, yesterdayStr),
        longestStreak |-> P4_calculateLongestStreak(dates, todayStr),
        totalCommits |-> P4_calculateTotalCommits(m, todayStr),
        lastCommitDate |-> P4_findLastCommitDate(dates, todayStr)]

\* the safety limit of the loop: yearToFetch > currentYear - 5
LookBackYears == 5

\* what one yearly fetch may report: the days of that year from some first
\* day on (possibly none), each with a count
LoopCounts == 0..LoopMaxCount

CalendarRanges(S) == {{}} \cup {{d \in S : d >= a} : a \in S}

YearResponses(y) ==
    UNION {[K -> LoopCounts] : K \in CalendarRanges(DaysOfYear(y))}

\* the merge written the other way round: the newly fetched year wins
MergeYear_NewWins(yc, c) ==
    [d \in (DOMAIN yc) \cup (DOMAIN c) |->
        IF d \in DOMAIN yc THEN yc[d] ELSE c[d]]

\* { ...yearContributions, ...contributions }: an existing key keeps its count
MergeYear(yc, c) ==
    [d \in (DOMAIN yc) \cup (DOMAIN c) |->
        IF d \in DOMAIN c THEN c[d] ELSE yc[d]]

\* needsMoreHistory that looks at the safety limit only
needsMoreHistory_IgnoresJan1(yc, y, cy) ==
    y > cy - LookBackYears

\* needsMoreHistory without the safety limit
needsMoreHistory_NoLimit(yc, y, cy) ==
    Jan1(y) \in DOMAIN yc /\ yc[Jan1(y)] > 0

\* hasContributionsOnJan1 && yearToFetch > currentYear - 5
needsMoreHistory(yc, y, cy) ==
    /\ Jan1(y) \in DOMAIN yc /\ yc[Jan1(y)] > 0
    /\ y > cy - LookBackYears

\* instant at which a request of the loop starts: 02:00 UTC of January 1st
\* (still December 31st in the zone UTC-5)
LoopStartInstants == {Jan1(LoopStartYear) * MinutesPerDay + 120}

InitLoop ==
    /\ upstream = EmptyMap
    /\ tzOffset \in TzOffsets
    /\ clock \in LoopStartInstants
    /\ today = clock
    /\ contributions = EmptyMap
    /\ stats = NoStats
    /\ pc = "loop_start"
    /\ RequestIdle
    /\ LoopIdle
    /\ OthersIdle

\* getCommitHistory up to the while loop
LoopBegin ==
    /\ pc = "loop_start"
    /\ today' = clock
    /\ currentYear' = getFullYear(clock, tzOffset)
    /\ yearToFetch' = getFullYear(clock, tzOffset)
    /\ hasMoreHistory' = TRUE
    /\ contributions' = EmptyMap
    /\ pc' = "loop_fetch"
    /\ UNCHANGED <<upstream, tzOffset, clock, stats, yearContributions, rvars>>
    /\ UNCHANGED xvars

\* the body of the while loop for the answer yearData: merge, decide
LoopBody(yearData) ==
    /\ pc = "loop_fetch"
    /\ hasMoreHistory
    /\ yearContributions' = yearData
    /\ contributions' = MergeYear(yearData, contributions)
    /\ upstream' = MergeYear(yearData, upstream)
    /\ IF needsMoreHistory(yearData, yearToFetch, currentYear)
       THEN /\ yearToFetch' = yearToFetch - 1
            /\ hasMoreHistory' = TRUE
       ELSE /\ yearToFetch' = yearToFetch
            /\ hasMoreHistory' = FALSE
    /\ fetched' = Append(fetched, yearToFetch)
    /\ UNCHANGED <<tzOffset, clock, today, stats, pc, currentYear>>
    /\ UNCHANGED <<token, tokenValid, user, yearsToFetch, failure,
                   route, httpStatus, httpBody>>
    /\ UNCHANGED xvars

\* one iteration of the while loop: fetch, merge, decide
LoopFetchYear ==
    \E yearData \in YearResponses(yearToFetch) : LoopBody(yearData)

\* return this.calculateStreaks(contributions, now)
LoopReturn ==
    /\ pc = "loop_fetch"
    /\ ~hasMoreHistory
    /\ stats' = P4_calculateStreaks(contributions, today, tzOffset)
    /\ pc' = "loop_done"
    /\ UNCHANGED <<upstream, tzOffset, clock, today, contributions,
                   rvars, lvars>>
    /\ UNCHANGED xvars

NextLoop ==
    \/ LoopBegin
    \/ LoopFetchYear
    \/ LoopReturn

SpecLoop == InitLoop /\ [][NextLoop]_vars

\* the synchronous start runs and every awaited yearly fetch is answered
FairSpecLoop == SpecLoop /\ WF_vars(LoopBegin) /\ WF_vars(LoopFetchYear)

(* ------------ the year loop with calendars that overlap ---------------- *)

\* calendars whose range reaches from January 1st of the year to the first
\* day of the following year (the two ends only), or that report nothing
YearTurns(y) ==
    {EmptyMap} \cup [{Jan1(y), Jan1(y + 1)} -> LoopCounts]

\* one iteration of the while loop, answered with such a calendar
LoopFetchOverlapping ==
    \E yearData \in YearTurns(yearToFetch) : LoopBody(yearData)

NextOverlap ==
    \/ LoopBegin
    \/ LoopFetchOverlapping
    \/ LoopReturn

SpecOverlap == InitLoop /\ [][NextOverlap]_vars

(* ------------------- the inline revision of the engine ----------------- *)

\* the first loop: the most recent date with count > 0
Inline_lastCommitDate(sortedDates) ==
    LET hits == {i \in 1..Len(sortedDates) : sortedDates[i][2] > 0}
    IN IF hits = {} THEN Null ELSE sortedDates[Max(hits)][1]

\* the backward pass from index i down, currentStreak so far
RECURSIVE Inline_BackwardPass(_, _, _, _, _)
Inline_BackwardPass(sortedDates, i, todayStr, yesterdayCount, cur) ==
    IF i = 0 THEN cur
    ELSE IF /\ i = Len(sortedDates)
            /\ sortedDates[i][1] = todayStr /\ sortedDates[i][2] = 0
            /\ yesterdayCount = 0
         THEN cur
    ELSE IF sortedDates[i][2] > 0
         THEN Inline_BackwardPass(sortedDates, i - 1, todayStr,
                                  yesterdayCount, cur + 1)
    ELSE IF sortedDates[i][1] # todayStr THEN cur
    ELSE Inline_BackwardPass(sortedDates, i - 1, todayStr, yesterdayCount,
                             cur)

\* the forward pass from index i on, with tempStreak and longestStreak
RECURSIVE Inline_ForwardPass(_, _, _, _)
Inline_ForwardPass(sortedDates, i, temp, longest) ==
    IF i > Len(sortedDates) THEN longest
    ELSE IF sortedDates[i][2] > 0
         THEN Inline_ForwardPass(sortedDates, i + 1, temp + 1,
                                 IF temp + 1 > longest THEN temp + 1
                                 ELSE longest)
    ELSE Inline_ForwardPass(sortedDates, i + 1, 0, longest)

\* Array.from(contributions.values()).reduce((a, b) => a + b, 0)
RECURSIVE Inline_totalCommits(_)
Inline_totalCommits(m) ==
    IF DOMAIN m = {} THEN 0
    ELSE LET d == Max(DOMAIN m)
         IN Inline_totalCommits([k \in (DOMAIN m) \ {d} |-> m[k]]) + m[d]

\* the stats the inline getCommitHistory returns for its map
Inline_calculateStreaks(m, t, tz) ==
    LET sortedDates == SortedEntries(m)
        todayStr == format(t - tz, tz)
        yesterdayStr == format(t - tz - MinutesPerDay, tz)
        yesterdayCount ==
            IF yesterdayStr \in DOMAIN m /\ m[yesterdayStr] # 0
            THEN m[yesterdayStr] ELSE 0
    IN [currentStreak |->
            Inline_BackwardPass(sortedDates, Len(sortedDates), todayStr,
                                yesterdayCount, 0),
        longestStreak |-> Inline_ForwardPass(sortedDates, 1, 0, 0),
        totalCommits |-> Inline_totalCommits(m),
        lastCommitDate |-> Inline_lastCommitDate(sortedDates)]

(* ------------- the year loop against one complete history -------------- *)

\* a complete history: a count for every calendar day of the years it covers
Histories ==
    [UNION {DaysOfYear(y) :
                y \in (LoopStartYear - HistoryYears)..LoopStartYear}
         -> LoopCounts]

\* the calendar of year y of the history h
CalendarOf(h, y) == [d \in (DOMAIN h) \cap DaysOfYear(y) |-> h[d]]

InitHistory ==
    /\ upstream \in Histories
    /\ tzOffset \in TzOffsets
    /\ clock \in LoopStartInstants
    /\ today = clock
    /\ contributions = EmptyMap
    /\ stats = NoStats
    /\ pc = "loop_start"
    /\ RequestIdle
    /\ LoopIdle
    /\ OthersIdle

\* one iteration of the while loop, answered from the history
LoopFetchReported == LoopBody(CalendarOf(upstream, yearToFetch))

NextHistory ==
    \/ LoopBegin
    \/ LoopFetchReported
    \/ LoopReturn

SpecHistory == InitHistory /\ [][NextHistory]_vars

(* --------------- calendars with a malformed contributionCount ---------- *)

\* a contributionCount that is not a non-negative integer; like a missing
\* count it is neither === 0 nor > 0
MalformedCount == 0 - 1

\* the reported days around today carry a count or a malformed count
MalformedMaps ==
    UNION {[K -> Counts \cup {MalformedCount}] :
               K \in SUBSET {d \in Dates : d >= MaxDate - 2}}

InitMalformed ==
    /\ upstream \in MalformedMaps
    /\ tzOffset \in TzOffsets
    /\ clock \in StartInstants
    /\ today = clock
    /\ contributions = EmptyMap
    /\ stats = NoStats
    /\ pc = "start"
    /\ RequestIdle
    /\ LoopIdle
    /\ OthersIdle

SpecMalformed == InitMalformed /\ [][Next]_vars

(* ------------- getCommitHistory behind the two HTTP routes -------------- *)

\* the user infos the upstream may return: the year of createdAt (a UTC
\* timestamp) and the reported contributionYears
Users(t) ==
    LET utcYear == getFullYear(t, 0)
        years == (utcYear - MaxAccountAge)..utcYear
    IN [createdYear : years, contributionYears : SUBSET years]

\* Math.min(userCreatedYear, Math.min(...contributionYears)); Math.min()
\* of no argument is Infinity
startYear(u) ==
    IF u.contributionYears = {} THEN u.createdYear
    ELSE IF Min(u.contributionYears) < u.createdYear
         THEN Min(u.contributionYears)
         ELSE u.createdYear

\* the year list running one year past the current year
yearsOf_PastCurrent(u, t, tz) ==
    LET len == getFullYear(t, tz) - startYear(u) + 2
    IN [i \in 1..(IF len > 0 THEN len ELSE 0) |-> startYear(u) + i - 1]

\* Array.from({ length: today.getFullYear() - startYear + 1 },
\*            (_, i) => startYear + i)
yearsOf(u, t, tz) ==
    LET len == getFullYear(t, tz) - startYear(u) + 1
    IN [i \in 1..(IF len > 0 THEN len ELSE 0) |-> startYear(u) + i - 1]

\* contributions[day.date] = day.contributionCount for the kept days of one
\* calendar: a later calendar overwrites a key
StoreYear(c, kept) ==
    [d \in (DOMAIN c) \cup (DOMAIN kept) |->
        IF d \in DOMAIN kept THEN kept[d] ELSE c[d]]

\* a failed validation that goes on to reject the request
AfterValidate_Reject(valid) ==
    IF valid = "valid" THEN "r_userinfo" ELSE "r_rejected"

\* validateToken catches its error and its result is not used
AfterValidate(valid) == "r_userinfo"

\* the catch block answering with the stats status
CatchResponse_Ok(r) ==
    [status |-> 200, body |-> "json_error"]

\* the catch block of a route: c.json({ error: ... }, 500)
CatchResponse(r) ==
    [status |-> 500, body |-> "json_error"]

\* the answer of a route whose getCommitHistory resolved
StatsResponse(r) ==
    [status |-> 200, body |-> IF r = "badge" THEN "svg" ELSE "json_stats"]

InitFetch ==
    /\ upstream = EmptyMap
    /\ tzOffset \in TzOffsets
    /\ clock \in LoopStartInstants
    /\ today = clock
    /\ contributions = EmptyMap
    /\ stats = NoStats
    /\ pc = "r_start"
    /\ token \in BOOLEAN
    /\ tokenValid = "unknown"
    /\ user = NoUser
    /\ yearsToFetch = <<>>
    /\ fetched = <<>>
    /\ failure = "none"
    /\ route \in {"json", "badge"}
    /\ httpStatus = 0
    /\ httpBody = "none"
    /\ LoopIdle
    /\ OthersIdle

\* await this.validateToken(): the viewer query of a request without a
\* token is refused; with a token it is accepted or refused
ReqValidateToken ==
    /\ pc = "r_start"
    /\ \E valid \in {"valid", "invalid"} :
           /\ ~token => valid = "invalid"
           /\ tokenValid' = valid
           /\ pc' = AfterValidate(valid)
           /\ failure' = IF AfterValidate(valid) = "r_rejected"
                         THEN "token" ELSE failure
    /\ UNCHANGED <<upstream, tzOffset, clock, today, contributions, stats>>
    /\ UNCHANGED <<token, user, yearsToFetch, fetched, route, httpStatus,
                   httpBody, lvars>>
    /\ UNCHANGED xvars

\* fetchUserInfo answered with a user; today and the years are determined
ReqFetchUserInfo ==
    /\ pc = "r_userinfo"
    /\ \E u \in Users(clock) :
           /\ user' = u
           /\ yearsToFetch' = yearsOf(u, clock, tzOffset)
    /\ today' = clock
    /\ pc' = "r_collect"
    /\ UNCHANGED <<upstream, tzOffset, clock, contributions, stats>>
    /\ UNCHANGED <<token, tokenValid, fetched, failure, route, httpStatus,
                   httpBody, lvars>>
    /\ UNCHANGED xvars

\* fetchUserInfo throws: the query is rejected, or it reports no user and
\* user.contributionsCollection cannot be read
ReqFetchUserInfoFails ==
    /\ pc = "r_userinfo"
    /\ failure' \in {"userinfo", "unknown_user"}
    /\ pc' = "r_rejected"
    /\ UNCHANGED <<upstream, tzOffset, clock, today, contributions, stats>>
    /\ UNCHANGED <<token, tokenValid, user, yearsToFetch, fetched, route,
                   httpStatus, httpBody, lvars>>
    /\ UNCHANGED xvars

\* what a step of the yearly fetches leaves alone among xvars
FetchFrame ==
    UNCHANGED <<badgeStreak, tier, nextTierText, badges, requests, heap>>

\* a loop that issues the next fetch while one is still awaited
MayIssue_WhileAwaiting(at) == at \in {"r_collect", "r_await"}

\* the for loop reaches its next round only when it is not suspended at
\* `await this.getContributionsForYear(username, year)`
MayIssue(at) == at = "r_collect"

\* a round of the for loop of collectContributions begins: the calendar of
\* the next year is requested and awaited
ReqIssueYear ==
    /\ MayIssue(pc)
    /\ Len(fetched) < Len(yearsToFetch)
    /\ LET year == yearsToFetch[Len(fetched) + 1]
       IN /\ fetched' = Append(fetched, year)
          /\ outstanding' = outstanding \cup {year}
    /\ pc' = "r_await"
    /\ UNCHANGED <<upstream, tzOffset, clock, today, contributions, stats>>
    /\ UNCHANGED <<token, tokenValid, user, yearsToFetch, failure, route,
                   httpStatus, httpBody, lvars>>
    /\ FetchFrame

\* the awaited calendar arrives and its kept days are stored
ReqFetchYear ==
    /\ pc = "r_await"
    /\ \E year \in outstanding :
           /\ outstanding' = outstanding \ {year}
           /\ \E calendar \in YearResponses(year) :
                  /\ upstream' = StoreYear(upstream, calendar)
                  /\ contributions' =
                         StoreYear(contributions,
                                   collectContributions(calendar, today,
                                                        clock, tzOffset))
    /\ pc' = "r_collect"
    /\ UNCHANGED <<tzOffset, clock, today, stats>>
    /\ UNCHANGED <<token, tokenValid, user, yearsToFetch, fetched, failure,
                   route, httpStatus, httpBody, lvars>>
    /\ FetchFrame

\* the awaited fetch is rejected
ReqFetchYearFails ==
    /\ pc = "r_await"
    /\ \E year \in outstanding : outstanding' = outstanding \ {year}
    /\ failure' = "year"
    /\ pc' = "r_rejected"
    /\ UNCHANGED <<upstream, tzOffset, clock, today, contributions, stats>>
    /\ UNCHANGED <<token, tokenValid, user, yearsToFetch, fetched, route,
                   httpStatus, httpBody, lvars>>
    /\ FetchFrame

\* return this.calculateStreaks(contributions, today)
ReqReturn ==
    /\ pc = "r_collect"
    /\ Len(fetched) = Len(yearsToFetch)
    /\ stats' = calculateStreaks(contributions, today, tzOffset)
    /\ pc' = "r_resolved"
    /\ UNCHANGED <<upstream, tzOffset, clock, today, contributions>>
    /\ UNCHANGED <<rvars, lvars>>
    /\ UNCHANGED xvars

\* the route answers with the stats or with the badge made from them
RouteRespondStats ==
    /\ pc = "r_resolved"
    /\ httpStatus' = StatsResponse(route).status
    /\ httpBody' = StatsResponse(route).body
    /\ pc' = "r_done"
    /\ UNCHANGED <<upstream, tzOffset, clock, today, contributions, stats>>
    /\ UNCHANGED <<token, tokenValid, user, yearsToFetch, fetched, failure,
                   route, lvars>>
    /\ UNCHANGED xvars

\* getCommitHistory rethrew: the catch block of the route answers
RouteRespondError ==
    /\ pc = "r_rejected"
    /\ httpStatus' = CatchResponse(route).status
    /\ httpBody' = CatchResponse(route).body
    /\ pc' = "r_done"
    /\ UNCHANGED <<upstream, tzOffset, clock, today, contributions, stats>>
    /\ UNCHANGED <<token, tokenValid, user, yearsToFetch, fetched, failure,
                   route, lvars>>
    /\ UNCHANGED xvars

NextFetch ==
    \/ ReqValidateToken
    \/ ReqFetchUserInfo
    \/ ReqFetchUserInfoFails
    \/ ReqIssueYear
    \/ ReqFetchYear
    \/ ReqFetchYearFails
    \/ ReqReturn
    \/ RouteRespondStats
    \/ RouteRespondError

SpecFetch == InitFetch /\ [][NextFetch]_vars

(* ------------------------------ the badge ------------------------------ *)

THRESHOLDS == <<3, 7, 14, 21, 30, 50, 100, 250, 365, 500, 750, 1000>>

\* getTier with exclusive bounds
getTier_Exclusive(s) ==
    IF s > 1000 THEN
         [emoji |-> "U1F30C", label |-> "Universal Constant",
          gradientStart |-> "#020617", gradientEnd |-> "#1e1b4b"]
    ELSE IF s > 750 THEN
         [emoji |-> "U1FA90", label |-> "Celestial",
          gradientStart |-> "#2e1065", gradientEnd |-> "#581c87"]
    ELSE IF s > 500 THEN
         [emoji |-> "U2604+UFE0F", label |-> "Cosmic",
          gradientStart |-> "#312e81", gradientEnd |-> "#4c1d95"]
    ELSE IF s > 365 THEN
         [emoji |-> "U1F320", label |-> "Astral",
          gradientStart |-> "#1e3a8a", gradientEnd |-> "#3730a3"]
    ELSE IF s > 250 THEN
         [emoji |-> "U1F311", label |-> "Lunar",
          gradientStart |-> "#0f172a", gradientEnd |-> "#1e293b"]
    ELSE IF s > 100 THEN
         [emoji |-> "U1F52E", label |-> "Mythical",
          gradientStart |-> "#3b0764", gradientEnd |-> "#9333ea"]
    ELSE IF s > 50 THEN
         [emoji |-> "U1F31F", label |-> "Legendary",
          gradientStart |-> "#854d0e", gradientEnd |-> "#ca8a04"]
    ELSE IF s > 30 THEN
         [emoji |-> "U1F451", label |-> "Royal",
          gradientStart |-> "#b45309", gradientEnd |-> "#d97706"]
    ELSE IF s > 21 THEN
         [emoji |-> "U1F680", label |-> "Soaring",
          gradientStart |-> "#0369a1", gradientEnd |-> "#0284c7"]
    ELSE IF s > 14 THEN
         [emoji |-> "U1F4AA", label |-> "Strong",
          gradientStart |-> "#7f1d1d", gradientEnd |-> "#991b1b"]
    ELSE IF s > 7 THEN
         [emoji |-> "U26A1", label |-> "Electric",
          gradientStart |-> "#ca8a04", gradientEnd |-> "#eab308"]
    ELSE IF s > 3 THEN
         [emoji |-> "U1F525", label |-> "On Fire",
          gradientStart |-> "#9a3412", gradientEnd |-> "#ea580c"]
    ELSE [emoji |-> "U1F331", label |-> "Seedling",
          gradientStart |-> "#166534", gradientEnd |-> "#16a34a"]

\* the chain of `if (streak >= t) return {...}`; an emoji is written as its
\* code points
getTier(s) ==
    IF s >= 1000 THEN
         [emoji |-> "U1F30C", label |-> "Universal Constant",
          gradientStart |-> "#020617", gradientEnd |-> "#1e1b4b"]
    ELSE IF s >= 750 THEN
         [emoji |-> "U1FA90", label |-> "Celestial",
          gradientStart |-> "#2e1065", gradientEnd |-> "#581c87"]
    ELSE IF s >= 500 THEN
         [emoji |-> "U2604+UFE0F", label |-> "Cosmic",
          gradientStart |-> "#312e81", gradientEnd |-> "#4c1d95"]
    ELSE IF s >= 365 THEN
         [emoji |-> "U1F320", label |-> "Astral",
          gradientStart |-> "#1e3a8a", gradientEnd |-> "#3730a3"]
    ELSE IF s >= 250 THEN
         [emoji |-> "U1F311", label |-> "Lunar",
          gradientStart |-> "#0f172a", gradientEnd |-> "#1e293b"]
    ELSE IF s >= 100 THEN
         [emoji |-> "U1F52E", label |-> "Mythical",
          gradientStart |-> "#3b0764", gradientEnd |-> "#9333ea"]
    ELSE IF s >= 50 THEN
         [emoji |-> "U1F31F", label |-> "Legendary",
          gradientStart |-> "#854d0e", gradientEnd |-> "#ca8a04"]
    ELSE IF s >= 30 THEN
         [emoji |-> "U1F451", label |-> "Royal",
          gradientStart |-> "#b45309", gradientEnd |-> "#d97706"]
    ELSE IF s >= 21 THEN
         [emoji |-> "U1F680", label |-> "Soaring",
          gradientStart |-> "#0369a1", gradientEnd |-> "#0284c7"]
    ELSE IF s >= 14 THEN
         [emoji |-> "U1F4AA", label |-> "Strong",
          gradientStart |-> "#7f1d1d", gradientEnd |-> "#991b1b"]
    ELSE IF s >= 7 THEN
         [emoji |-> "U26A1", label |-> "Electric",
          gradientStart |-> "#ca8a04", gradientEnd |-> "#eab308"]
    ELSE IF s >= 3 THEN
         [emoji |-> "U1F525", label |-> "On Fire",
          gradientStart |-> "#9a3412", gradientEnd |-> "#ea580c"]
    ELSE [emoji |-> "U1F331", label |-> "Seedling",
          gradientStart |-> "#166534", gradientEnd |-> "#16a34a"]

\* getNextTierText finding the first threshold t >= currentStreak
getNextTierText_Inclusive(s) ==
    LET later == {i \in 1..Len(THRESHOLDS) : THRESHOLDS[i] >= s}
    IN IF later = {} THEN <<>>
       ELSE <<THRESHOLDS[Min(later)] - s, " days until next tier">>

\* THRESHOLDS.find((t) => t > currentStreak), then the template string
\* (number, text) or ''
getNextTierText(s) ==
    LET later == {i \in 1..Len(THRESHOLDS) : THRESHOLDS[i] > s}
    IN IF later = {} \/ THRESHOLDS[Min(later)] = 0 THEN <<>>
       ELSE <<THRESHOLDS[Min(later)] - s, " days until next tier">>

\* what generateStreakBadge puts into the markup
generateStreakBadge(st, gradientId) ==
    [gradientId |-> gradientId,
     tier |-> getTier(st.currentStreak),
     currentStreak |-> st.currentStreak,
     longestStreak |-> st.longestStreak,
     nextTierText |-> getNextTierText(st.currentStreak)]

\* the sheet whose badges are all rendered with the default gradient id
generateTestBadges_DefaultId ==
    LET streaks == <<0>> \o THRESHOLDS
    IN [i \in 1..Len(streaks) |->
           LET index == i - 1
               st == [currentStreak |-> streaks[i],
                      longestStreak |-> streaks[i],
                      totalCommits |-> streaks[i] * 10]
           IN [x |-> (index % 4) * (320 + 20),
               y |-> (index \div 4) * (350 + 20),
               badge |-> generateStreakBadge(st, <<"tierGradient">>)]]

\* [0, ...this.THRESHOLDS].map((streak, index) => ...): one badge per entry
generateTestBadges ==
    LET streaks == <<0>> \o THRESHOLDS
    IN [i \in 1..Len(streaks) |->
           LET index == i - 1
               st == [currentStreak |-> streaks[i],
                      longestStreak |-> streaks[i],
                      totalCommits |-> streaks[i] * 10]
           IN [x |-> (index % 4) * (320 + 20),
               y |-> (index \div 4) * (350 + 20),
               badge |-> generateStreakBadge(st, <<"tierGradient", index>>)]]

InitBadge ==
    /\ upstream = EmptyMap
    /\ tzOffset = 0
    /\ clock = 0
    /\ today = 0
    /\ contributions = EmptyMap
    /\ stats = NoStats
    /\ pc = "badge_start"
    /\ RequestIdle
    /\ LoopIdle
    /\ badgeStreak \in 0..MaxStreak
    /\ tier = "none"
    /\ nextTierText = "none"
    /\ badges = <<>>
    /\ requests = <<>>
    /\ heap = <<>>
    /\ outstanding = {}

\* GET /streak/:username/badge renders the badge of the stats
GenerateStreakBadge ==
    /\ pc = "badge_start"
    /\ tier' = getTier(badgeStreak)
    /\ nextTierText' = getNextTierText(badgeStreak)
    /\ pc' = "badge_done"
    /\ UNCHANGED <<upstream, tzOffset, clock, today, contributions, stats,
                   rvars, lvars, badgeStreak, badges, requests, heap,
                   outstanding>>

\* GET /test/badges renders the sheet
GenerateTestBadges ==
    /\ pc = "badge_start"
    /\ badges' = generateTestBadges
    /\ pc' = "sheet_done"
    /\ UNCHANGED <<upstream, tzOffset, clock, today, contributions, stats,
                   rvars, lvars, badgeStreak, tier, nextTierText, requests,
                   heap, outstanding>>

NextBadge ==
    \/ GenerateStreakBadge
    \/ GenerateTestBadges

SpecBadge == InitBadge /\ [][NextBadge]_vars

(* ----------------------- two requests in flight ------------------------ *)

Requests == {1, 2}

\* a request the server has not yet received
NewRequest ==
    [pc |-> "new", service |-> <<>>, today |-> 0, years |-> <<>>,
     map |-> 0, responses |-> <<>>, stats |-> NoStats]

\* every request writing to one map object
MapOf_Shared(r) == 1

\* `const contributions: ContributionMap = {}`: each call of
\* collectContributions creates its own object
MapOf(r) == r

\* the calendars a concurrent request is answered with: every day of the
\* year, or none
FullCalendars(y) ==
    {c \in YearResponses(y) : DOMAIN c \in {{}, DaysOfYear(y)}}

InitServer ==
    /\ upstream = EmptyMap
    /\ tzOffset \in TzOffsets
    /\ clock \in LoopStartInstants
    /\ today = clock
    /\ contributions = EmptyMap
    /\ stats = NoStats
    /\ pc = "serving"
    /\ RequestIdle
    /\ LoopIdle
    /\ badgeStreak = 0
    /\ tier = "none"
    /\ nextTierText = "none"
    /\ badges = <<>>
    /\ requests = [r \in Requests |-> NewRequest]
    /\ heap = [o \in {} |-> EmptyMap]
    /\ outstanding = {}

\* what a step of the server leaves alone besides requests, heap and clock
ServerFrame ==
    UNCHANGED <<upstream, tzOffset, today, contributions, stats, pc, rvars,
                lvars, badgeStreak, tier, nextTierText, badges,
                outstanding>>

\* the middleware creates the service of the request, the handler calls
\* getCommitHistory, which awaits validateToken
ReceiveRequest(r) ==
    /\ requests[r].pc = "new"
    /\ requests' = [requests EXCEPT
                        ![r].service = [tzOffset |-> tzOffset],
                        ![r].pc = "validate"]
    /\ UNCHANGED <<heap, clock>>
    /\ ServerFrame

\* validateToken settled; fetchUserInfo is awaited
TokenValidated(r) ==
    /\ requests[r].pc = "validate"
    /\ requests' = [requests EXCEPT ![r].pc = "userinfo"]
    /\ UNCHANGED <<heap, clock>>
    /\ ServerFrame

\* fetchUserInfo answered: today and the years are fixed, collectContributions
\* creates its map and awaits the first year
UserInfoFetched(r) ==
    /\ requests[r].pc = "userinfo"
    /\ \E u \in Users(clock) :
           requests' = [requests EXCEPT
                            ![r].today = clock,
                            ![r].years =
                                yearsOf(u, clock, requests[r].service.tzOffset),
                            ![r].map = MapOf(r),
                            ![r].pc = "collect"]
    /\ heap' = [o \in (DOMAIN heap) \cup {MapOf(r)} |->
                   IF o = MapOf(r) THEN EmptyMap ELSE heap[o]]
    /\ UNCHANGED clock
    /\ ServerFrame

\* the calendar of the next year of request r arrived and is stored
YearFetched(r) ==
    /\ requests[r].pc = "collect"
    /\ Len(requests[r].responses) < Len(requests[r].years)
    /\ \E calendar \in
             FullCalendars(requests[r].years[Len(requests[r].responses) + 1]) :
           /\ requests' = [requests EXCEPT
                               ![r].responses = Append(@, calendar)]
           /\ heap' = [heap EXCEPT
                           ![requests[r].map] =
                               StoreYear(@, collectContributions(
                                                calendar, requests[r].today,
                                                clock,
                                                requests[r].service.tzOffset))]
    /\ UNCHANGED clock
    /\ ServerFrame

\* return this.calculateStreaks(contributions, today) of request r
RequestReturns(r) ==
    /\ requests[r].pc = "collect"
    /\ Len(requests[r].responses) = Len(requests[r].years)
    /\ requests' = [requests EXCEPT
                        ![r].stats =
                            calculateStreaks(heap[requests[r].map],
                                             requests[r].today,
                                             requests[r].service.tzOffset),
                        ![r].pc = "done"]
    /\ UNCHANGED <<heap, clock>>
    /\ ServerFrame

\* time passes while the requests await their fetches
ServerTick ==
    /\ \E r \in Requests : requests[r].pc \in {"validate", "userinfo"}
    /\ clock < today + MaxTicks * TickMinutes
    /\ clock' = clock + TickMinutes
    /\ UNCHANGED <<requests, heap>>
    /\ ServerFrame

NextServer ==
    \/ \E r \in Requests : ReceiveRequest(r)
    \/ \E r \in Requests : TokenValidated(r)
    \/ \E r \in Requests : UserInfoFetched(r)
    \/ \E r \in Requests : YearFetched(r)
    \/ \E r \in Requests : RequestReturns(r)
    \/ ServerTick

SpecServer == InitServer /\ [][NextServer]_vars

(* ------------------- calendar notions used by the claims --------------- *)

TodayStr == getLocalDateString(today, tzOffset)

YesterdayStr == getLocalDateString(today - MinutesPerDay, tzOffset)

\* the day d has an entry with a positive count
Active(m, d) == d \in DOMAIN m /\ m[d] > 0

\* length of the run of consecutive active calendar days that ends on day d
RECURSIVE RunEndingAt(_, _)
RunEndingAt(m, d) == IF Active(m, d) THEN 1 + RunEndingAt(m, d - 1) ELSE 0

\* the longest run of consecutive active calendar days up to day t
MaxRun(m, t) ==
    Max({0} \cup {RunEndingAt(m, d) : d \in {k \in DOMAIN m : k <= t}})

\* the run ending now: at today, or at yesterday when today is not active
TrailingRun(m, t) ==
    IF Active(m, t) THEN RunEndingAt(m, t) ELSE RunEndingAt(m, t - 1)

\* m with every missing date from its earliest key to day t inserted as 0
Fill(m, t) ==
    IF DOMAIN m = {} THEN m
    ELSE LET lo == Min(DOMAIN m)
         IN [d \in (DOMAIN m) \cup {k \in lo..t : TRUE} |->
                IF d \in DOMAIN m THEN m[d] ELSE 0]

\* m without the entries dated after day t
Restrict(m, t) == [d \in {k \in DOMAIN m : k <= t} |-> m[d]]

\* sum of the counts of days 0..d
RECURSIVE SumDays(_, _)
SumDays(m, d) ==
    IF d < 0 THEN 0
    ELSE (IF d \in DOMAIN m THEN m[d] ELSE 0) + SumDays(m, d - 1)

\* the latest active day up to day t, Null when there is none
LatestActive(m, t) ==
    LET act == {d \in DOMAIN m : d <= t /\ m[d] > 0}
    IN IF act = {} THEN Null ELSE Max(act)

Done == pc = "done"

\* the upstream reported a positive count for a date after today
FutureActivityReported ==
    \E d \in DOMAIN upstream : d > TodayStr /\ upstream[d] > 0

(* -------------------------------- claims ------------------------------- *)

C2_MissingDateIsZero ==
    Done =>
        LET filled == calculateStreaks(Fill(contributions, TodayStr),
                                       today, tzOffset)
        IN /\ stats.currentStreak = filled.currentStreak
           /\ stats.longestStreak = filled.longestStreak

C4_CurrentStreakEndsNow ==
    Done =>
        /\ stats.currentStreak > 0 =>
               stats.lastCommitDate \in {TodayStr, YesterdayStr}
        /\ (~Active(contributions, TodayStr)
            /\ ~Active(contributions, YesterdayStr)) =>
               stats.currentStreak = 0

\* C5: when the most recent entry is today with count 0: (a) if yesterday
\* has count > 0, currentStreak is the length of the run of consecutive
\* active days ending yesterday; (b) otherwise currentStreak is 0.
C5_TodayIsZeroRule ==
    (/\ Done
     /\ DOMAIN contributions # {}
     /\ Max(DOMAIN contributions) = TodayStr
     /\ contributions[TodayStr] = 0) =>
        IF Active(contributions, YesterdayStr)
        THEN stats.currentStreak = RunEndingAt(contributions, YesterdayStr)
        ELSE stats.currentStreak = 0

\* C6: longestStreak is the maximum length of a run of consecutive active
\* days in the non-future history; when a historical run is longer than the
\* run ending now, currentStreak is the length of the trailing run only.
C6_LongestIsMaxRun ==
    Done =>
        /\ stats.longestStreak = MaxRun(contributions, TodayStr)
        /\ MaxRun(contributions, TodayStr)
               > TrailingRun(contributions, TodayStr) =>
               stats.currentStreak = TrailingRun(contributions, TodayStr)

\* C7: for every k >= 1, when the last k entries are the k consecutive days
\* ending today, all with count > 0, preceded by an entry with count 0 or by
\* nothing, and no run is longer than k, currentStreak = longestStreak = k.
C7_RunOfKEndingToday ==
    Done =>
        \A k \in 1..(MaxDate + 1) :
            LET dates == SortedEntries(contributions)
                n == Len(dates)
            IN (/\ n >= k
                /\ \A j \in 0..(k - 1) :
                       /\ dates[n - j][1] = TodayStr - j
                       /\ dates[n - j][2] > 0
                /\ n > k => dates[n - k][2] = 0
                /\ MaxRun(contributions, TodayStr) <= k) =>
                   /\ stats.currentStreak = k
                   /\ stats.longestStreak = k

\* C8: lastCommitDate is null iff totalCommits = 0 iff no non-future entry
\* of the map has count > 0.
C8_NullIffZeroIffInactive ==
    Done =>
        /\ (stats.lastCommitDate = Null) <=> (stats.totalCommits = 0)
        /\ (stats.totalCommits = 0) <=>
               ~(\E d \in DOMAIN contributions :
                     d <= TodayStr /\ contributions[d] > 0)

\* C8 witness: stats of a non-empty map whose counts are all 0, although a
\* positive count was reported for a future date.
C8_Witness ==
    /\ Done
    /\ FutureActivityReported
    /\ DOMAIN contributions # {}
    /\ stats.lastCommitDate = Null
    /\ stats.totalCommits = 0

\* C9: totalCommits is the sum of the counts of all entries dated on or
\* before today; it is 0 when the map is empty or every count is 0.
C9_TotalIsSumUpToToday ==
    Done =>
        /\ stats.totalCommits = SumDays(contributions, TodayStr)
        /\ (\A d \in DOMAIN contributions : contributions[d] = 0) =>
               stats.totalCommits = 0

\* C9 witness: several entries, one of them with a count above 1, summed.
C9_Witness ==
    /\ Done
    /\ Cardinality(DOMAIN contributions) >= 3
    /\ \E d \in DOMAIN contributions : contributions[d] > 1
    /\ stats.totalCommits > Cardinality(DOMAIN contributions)

\* C10: lastCommitDate is the latest date, among entries dated on or before
\* today, with count > 0 (never after today, never a 0 day); null when
\* there is none.
C10_LastCommitDateIsLatestActive ==
    Done =>
        /\ stats.lastCommitDate = LatestActive(contributions, TodayStr)
        /\ stats.lastCommitDate # Null =>
               /\ stats.lastCommitDate <= TodayStr
               /\ contributions[stats.lastCommitDate] > 0

\* C10 witness: today's entry is 0, an earlier day is the last active one,
\* and it is not the only active day.
C10_Witness ==
    /\ Done
    /\ TodayStr \in DOMAIN contributions /\ contributions[TodayStr] = 0
    /\ stats.lastCommitDate # Null
    /\ stats.lastCommitDate < TodayStr
    /\ \E d \in DOMAIN contributions :
           d < stats.lastCommitDate /\ contributions[d] > 0

\* the values a StreakStats can hold for a map over Dates
StreakStatsValues ==
    [currentStreak : 0..(MaxDate + 1), longestStreak : 0..(MaxDate + 1),
     totalCommits : 0..((MaxDate + 1) * MaxCount),
     lastCommitDate : Dates \cup {Null}]

\* C11: calculateStreaks returns a StreakStats value for every map of
\* non-negative counts, and for the empty map or a map whose counts are all
\* 0 it returns currentStreak = 0, longestStreak = 0, totalCommits = 0 and
\* lastCommitDate = null.
C11_TotalAndZeroOnInactive ==
    Done =>
        /\ stats \in StreakStatsValues
        /\ (\A d \in DOMAIN contributions : contributions[d] = 0) =>
               stats = NoStats

\* C11 witness: stats of a map with several entries, all of count 0, one of
\* them today's.
C11_Witness ==
    /\ Done
    /\ Cardinality(DOMAIN contributions) >= 3
    /\ TodayStr \in DOMAIN contributions
    /\ \A d \in DOMAIN contributions : contributions[d] = 0
    /\ stats = NoStats

\* the year merged last by the loop
LastFetched == fetched[Len(fetched)]

LoopExited == pc \in {"loop_fetch", "loop_done"} /\ ~hasMoreHistory

\* C13: the year-fetch loop always terminates and respects the 5-year cap:
\* also when January 1st is active in every year it reaches its Done state
\* after a bounded number of fetches and never requests a year earlier than
\* currentYear - 5.
C13_LoopTerminatesWithinCap ==
    /\ [](pc # "loop_start" =>
              /\ Len(fetched) <= LookBackYears + 1
              /\ \A i \in 1..Len(fetched) :
                     fetched[i] >= currentYear - LookBackYears)
    /\ <>LoopExited

\* C13 witness: January 1st was active in every fetched year and the loop
\* stopped at the cap, after the year currentYear - 5.
C13_Witness ==
    /\ pc = "loop_done"
    /\ LastFetched = currentYear - LookBackYears
    /\ \A y \in (currentYear - LookBackYears)..currentYear :
           Active(contributions, Jan1(y))

\* the request flow computed its list of years
YearsDetermined == pc \in {"r_collect", "r_rejected", "r_resolved", "r_done"}
                   /\ user # NoUser

Failed == failure # "none"

\* C15: if the user-info fetch or a yearly fetch fails, the failed fetch is
\* not issued again, no further year is fetched, getCommitHistory rejects
\* without producing stats, and both routes answer with status 500 and a
\* generic JSON error body.
C15_FailedFetchEndsRequest ==
    /\ [](Failed => /\ pc \in {"r_rejected", "r_done"}
                    /\ stats = NoStats
                    /\ (pc = "r_done" => /\ httpStatus = 500
                                         /\ httpBody = "json_error"))
    /\ [][Failed => /\ fetched' = fetched
                    /\ failure' = failure
                    /\ stats' = stats
                    /\ pc' = "r_done"]_vars
    /\ [](\A i, j \in 1..Len(fetched) : fetched[i] = fetched[j] => i = j)

\* C15 witness: the second yearly fetch failed on the badge route and the
\* route has answered.
C15_Witness ==
    /\ pc = "r_done"
    /\ failure = "year"
    /\ route = "badge"
    /\ Len(fetched) = 2
    /\ Len(yearsToFetch) = 2
    /\ contributions # EmptyMap

\* C16: when the user-info query reports no user, the HTTP layer answers
\* with a 4xx not-found status, distinguishable from the 5xx answer of an
\* upstream fetch failure.
C16_UnknownUserIsNotFound ==
    (pc = "r_done" /\ failure = "unknown_user") => httpStatus \in 400..499

\* C17: an absent token or a failed token validation does not fail the
\* request: getCommitHistory goes on to the user-info and yearly fetches and
\* returns the stats of the collected map whenever those fetches succeed.
C17_TokenFailureDoesNotFailRequest ==
    /\ pc # "r_start" => tokenValid \in {"valid", "invalid"}
    /\ (~token /\ pc # "r_start") => tokenValid = "invalid"
    /\ failure \in {"none", "userinfo", "unknown_user", "year"}
    /\ (pc = "r_rejected" /\ failure = "year") => user # NoUser
    /\ (pc \in {"r_resolved", "r_done"} /\ ~Failed) =>
           /\ Len(fetched) = Len(yearsToFetch)
           /\ stats = calculateStreaks(contributions, today, tzOffset)
    /\ (pc = "r_done" /\ ~Failed) => httpStatus = 200

\* C17 witness: without a token, validation failed, every fetch succeeded
\* and the route answered with stats of a non-empty map.
C17_Witness ==
    /\ pc = "r_done"
    /\ ~token
    /\ tokenValid = "invalid"
    /\ httpStatus = 200
    /\ stats.totalCommits > 0

\* the map with every malformed count replaced by 0
ZeroMalformed(m) == [d \in DOMAIN m |-> IF m[d] \in Nat THEN m[d] ELSE 0]

\* C18: a per-day entry whose count is missing or not a non-negative integer
\* counts as a zero day: it adds 0 to totalCommits, never increments a
\* streak, breaks a run like a zero day, and the computation does not fail;
\* the stats are those of the map with the malformed counts set to 0.
C18_MalformedCountIsZero ==
    Done => stats = calculateStreaks(ZeroMalformed(contributions), today,
                                     tzOffset)

\* the calendar date an instant has in the zone: the instant shifted by the
\* offset once
LocalDate(t, tz) == (t - tz) \div MinutesPerDay

\* C20: getLocalDateString returns the calendar date the instant has in the
\* host zone, the instant shifted by the offset exactly once; today and
\* yesterday are derived with this function and the same offset.
C20_LocalDateShiftedOnce ==
    pc # "start" =>
        /\ TodayStr = LocalDate(today, tzOffset)
        /\ YesterdayStr = LocalDate(today - MinutesPerDay, tzOffset)

\* the thresholds as a set, and the largest one not above s (0 below all)
Thresholds == {THRESHOLDS[i] : i \in 1..Len(THRESHOLDS)}

FloorThreshold(s) ==
    LET below == {t \in Thresholds : t <= s}
    IN IF below = {} THEN 0 ELSE Max(below)

\* C21: getTier(s) is the tier attached to the largest threshold t <= s
\* (bounds inclusive) and 'Seedling' when s < 3; the tier never goes down as
\* s grows and changes exactly at the threshold values.
C21_TierOfLargestThresholdReached ==
    pc = "badge_done" =>
        /\ tier = getTier(FloorThreshold(badgeStreak))
        /\ badgeStreak < 3 <=> tier.label = "Seedling"
        /\ \A t \in Thresholds :
               (t > badgeStreak) => getTier(t) # tier
        /\ \A x \in 0..badgeStreak :
               (getTier(x) = tier) <=> (x >= FloorThreshold(badgeStreak))
        /\ badgeStreak > 0 =>
               ((tier # getTier(badgeStreak - 1)) <=>
                    (badgeStreak \in Thresholds))

\* C21 witness: a badge was rendered for a streak that is exactly a
\* threshold.
C21_Witness ==
    /\ pc = "badge_done"
    /\ badgeStreak = 365
    /\ tier.label = "Astral"

\* C22: generateTestBadges renders exactly 13 badges, for streak 0 and for
\* each of the 12 thresholds; the 13 tiers shown are pairwise distinct and
\* the 13 gradient ids are pairwise distinct.
C22_OneBadgePerTier ==
    pc = "sheet_done" =>
        /\ Len(badges) = 13
        /\ Len(badges) = Len(THRESHOLDS) + 1
        /\ badges[1].badge.currentStreak = 0
        /\ \A i \in 1..Len(THRESHOLDS) :
               badges[i + 1].badge.currentStreak = THRESHOLDS[i]
        /\ \A i, j \in 1..Len(badges) :
               i # j => /\ badges[i].badge.tier # badges[j].badge.tier
                        /\ badges[i].badge.tier.label #
                               badges[j].badge.tier.label
                        /\ badges[i].badge.gradientId #
                               badges[j].badge.gradientId

\* C22 witness: the sheet was rendered; its first badge is the base tier and
\* its last the top tier.
C22_Witness ==
    /\ pc = "sheet_done"
    /\ badges[1].badge.tier.label = "Seedling"
    /\ badges[Len(badges)].badge.tier.label = "Universal Constant"

\* the number of days the next-tier text reports (0 when it is empty)
DaysReported(text) == IF text = <<>> THEN 0 ELSE text[1]

\* C30: for every streak s < 1000 getNextTierText(s) reports d = t - s days
\* where t is the smallest threshold strictly greater than s, d >= 1,
\* getTier(s + d) differs from getTier(s) and getTier(x) = getTier(s) for
\* every s <= x < s + d; for s >= 1000 the text is empty.
C30_NextTierTextAgreesWithTiers ==
    pc = "badge_done" =>
        IF badgeStreak >= 1000 THEN nextTierText = <<>>
        ELSE LET d == DaysReported(nextTierText)
             IN /\ nextTierText # <<>>
                /\ badgeStreak + d \in Thresholds
                /\ \A t \in Thresholds :
                       t > badgeStreak => t >= badgeStreak + d
                /\ d >= 1
                /\ getTier(badgeStreak + d) # tier
                /\ \A x \in badgeStreak..(badgeStreak + d - 1) :
                       getTier(x) = tier

\* C30 witness: a badge for a streak that is itself a threshold reports the
\* days to the next threshold.
C30_Witness ==
    /\ pc = "badge_done"
    /\ badgeStreak = 50
    /\ nextTierText = <<50, " days until next tier">>

\* the map request r builds when its calendars are stored alone, one after
\* the other, from calendar i on
RECURSIVE AloneMap(_, _, _)
AloneMap(r, i, m) ==
    IF i > Len(requests[r].responses) THEN m
    ELSE AloneMap(r, i + 1,
                  StoreYear(m, [d \in {k \in DOMAIN requests[r].responses[i] :
                                        KeepDay(k,
                                                getLocalDateString(
                                                    requests[r].today,
                                                    requests[r].service.tzOffset),
                                                requests[r].today,
                                                requests[r].service.tzOffset)}
                                |-> requests[r].responses[i][d]]))

NumAnswered == Len(fetched) - Cardinality(outstanding)

\* C24: within one request at most one yearly fetch is outstanding at any
\* time, the fetch of the next year is issued only after the previous
\* year's response has been received and merged, each required year is
\* fetched exactly once, and the stats are computed only after the last
\* fetch has been merged.
C24_FetchesAreSequential ==
    /\ [](/\ Cardinality(outstanding) <= 1
          /\ Len(fetched) <= Len(yearsToFetch)
          /\ \A i \in 1..Len(fetched) : fetched[i] = yearsToFetch[i]
          /\ \A i, j \in 1..Len(fetched) : fetched[i] = fetched[j] => i = j
          /\ \A d \in DOMAIN upstream :
                 \E i \in 1..NumAnswered : YearOf(d) = fetched[i]
          /\ (pc \in {"r_resolved", "r_done"} /\ ~Failed) =>
                 /\ outstanding = {}
                 /\ fetched = yearsToFetch)
    /\ [][/\ fetched' # fetched =>
                 /\ outstanding = {}
                 /\ Len(fetched') = Len(fetched) + 1
          /\ stats' # stats =>
                 /\ outstanding = {}
                 /\ fetched = yearsToFetch
                 /\ contributions' = contributions]_vars

\* C24 witness: the second yearly fetch is awaited while the calendar of the
\* first year is already in the map.
C24_Witness ==
    /\ pc = "r_await"
    /\ Len(fetched) = 2
    /\ outstanding = {fetched[2]}
    /\ contributions # EmptyMap

\* the loop stopped on a January 1st without activity, before the cap, and
\* every fetched year was reported in full
StoppedOnJan1 ==
    /\ pc = "loop_done"
    /\ LastFetched > currentYear - LookBackYears
    /\ ~Active(yearContributions, Jan1(LastFetched))
    /\ \A i \in 1..Len(fetched) : DaysOfYear(fetched[i]) \subseteq DOMAIN upstream

\* C25: when the year loop stops at year Y because January 1st of Y has no
\* activity (not because of the cap) and the upstream reports every day of
\* each fetched year, the currentStreak of the merged map equals the
\* currentStreak of the user's complete history.
C25_EarlyStopIsExact ==
    StoppedOnJan1 =>
        stats.currentStreak =
            P4_calculateStreaks(upstream, today, tzOffset).currentStreak

\* C26: on every contribution map without a date after today the final
\* helper-based engine, the revision whose helpers filter future dates, and
\* the inline backward-pass/forward-pass revision return the same
\* currentStreak, longestStreak, totalCommits and lastCommitDate.
C26_RevisionsAgree ==
    (Done /\ \A d \in DOMAIN contributions : d <= TodayStr) =>
        /\ stats = P4_calculateStreaks(contributions, today, tzOffset)
        /\ stats = Inline_calculateStreaks(contributions, today, tzOffset)

\* C26 witness: a map with an empty today after an active yesterday and a
\* longer earlier run.
C26_Witness ==
    /\ Done
    /\ TodayStr \in DOMAIN contributions
    /\ contributions[TodayStr] = 0
    /\ stats.currentStreak >= 1
    /\ stats.longestStreak > stats.currentStreak
    /\ stats.totalCommits > stats.longestStreak

\* C27: in the year loop the merged map holds exactly one count per date and
\* a merged date never changes its count; when a later-fetched (older) year
\* reports a date that is already in the map, the count of the year fetched
\* first is kept.
C27_MergeKeepsFirstCount ==
    [][/\ \A d \in DOMAIN contributions :
              /\ d \in DOMAIN contributions'
              /\ contributions'[d] = contributions[d]
       /\ fetched' # fetched =>
              /\ DOMAIN contributions' =
                     (DOMAIN contributions) \cup (DOMAIN yearContributions')
              /\ \A d \in (DOMAIN yearContributions') \ (DOMAIN contributions) :
                     contributions'[d] = yearContributions'[d]]_vars

\* C27 witness: the older year just fetched reports a date that was already
\* merged, with another count, and the map still holds the first count.
C27_Witness ==
    /\ pc = "loop_fetch"
    /\ Len(fetched) >= 2
    /\ \E d \in DOMAIN yearContributions :
           /\ YearOf(d) = fetched[Len(fetched) - 1]
           /\ d \in DOMAIN contributions
           /\ contributions[d] # yearContributions[d]

\* the map m with the entry (d, 0) added
WithZeroEntry(m, d) ==
    [k \in (DOMAIN m) \cup {d} |-> IF k = d THEN 0 ELSE m[k]]

\* C28: for every map with no entry for today and no future entries, adding
\* the entry (today, 0) leaves longestStreak, totalCommits and
\* lastCommitDate unchanged.
C28_EmptyTodayIsNeutral ==
    (Done /\ TodayStr \notin DOMAIN contributions
          /\ \A d \in DOMAIN contributions : d < TodayStr) =>
        LET with == calculateStreaks(WithZeroEntry(contributions, TodayStr),
                                     today, tzOffset)
        IN /\ with.longestStreak = stats.longestStreak
           /\ with.totalCommits = stats.totalCommits
           /\ with.lastCommitDate = stats.lastCommitDate

\* C28 witness: stats of a map without an entry for today whose last entry
\* is an active yesterday at the end of a run.
C28_Witness ==
    /\ Done
    /\ TodayStr \notin DOMAIN contributions
    /\ Active(contributions, YesterdayStr)
    /\ stats.longestStreak >= 2
    /\ stats.lastCommitDate = YesterdayStr

\* the entries up to today with a count > 0
ActiveEntries == {d \in DOMAIN contributions :
                      d <= TodayStr /\ contributions[d] > 0}

\* C29: for every map of non-negative integer counts, 0 <= currentStreak,
\* longestStreak <= the number of non-future entries with count > 0, and
\* that number <= totalCommits; hence longestStreak <= totalCommits, and
\* longestStreak > 0 exactly when totalCommits > 0.
C29_StreakNumbersAreBounded ==
    Done =>
        /\ 0 <= stats.currentStreak
        /\ 0 <= stats.longestStreak
        /\ stats.longestStreak <= Cardinality(ActiveEntries)
        /\ Cardinality(ActiveEntries) <= stats.totalCommits
        /\ stats.longestStreak <= stats.totalCommits
        /\ (stats.longestStreak > 0) <=> (stats.totalCommits > 0)

\* C29 witness: stats of a map with zero entries and several commits on one
\* day, where the three numbers differ.
C29_Witness ==
    /\ Done
    /\ \E d \in DOMAIN contributions : contributions[d] = 0
    /\ stats.longestStreak > 0
    /\ stats.longestStreak < Cardinality(ActiveEntries)
    /\ Cardinality(ActiveEntries) < stats.totalCommits

====
